---- MODULE Spec2Model ----
(***************************************************************************)
(* Model of the IBKR paper-trading HTTP facade.                            *)
(*                                                                         *)
(* Two deployments of the same service are modelled side by side:          *)
(*   "index"  src/api/index.py   one long-lived IB client shared by all    *)
(*                               requests (trader.ib)                      *)
(*   "app"    src/app.py         a fresh IB client per operation           *)
(*                                                                         *)
(* The brokerage gateway client (ib_insync) is not part of the repository. *)
(* Every call into it is an input of the operation that makes it: a        *)
(* gateway script gw fixes, for one operation, what each gateway call      *)
(* does (returns, raises, leaves the connection down) and whether the      *)
(* connection is dropped from outside while the operation runs.            *)
(***************************************************************************)
EXTENDS Integers, Sequences, FiniteSets, TLC

VARIABLES
    variant,      \* "index" or "app": which deployment is running
    connected,    \* trader.connected, the cached flag
    ibLive,       \* trader.ib.isConnected() of the shared client (index only)
    afterExc,     \* the last session operation failed with a gateway exception
    pending,      \* the request being observed, with the session state its
                  \* handler started from, or NoRequest
    last,         \* record of the last answered request / session operation
    par,          \* the requests in a session operation, each with the
                  \* statement it is suspended at
    loop          \* the thread the handlers run in: "worker", a thread of
                  \* the server, which has no current event loop; "fresh",
                  \* the main thread before its first asyncio.run; "gone",
                  \* the main thread after it

vars == <<variant, connected, ibLive, afterExc, pending, last, par, loop>>

------------------------------------------------------------------------------
(* Bounds of the model *)

MaxSymLen == 1      \* longest symbol string a request carries
MaxQty    == 1      \* largest integer quantity a request carries

(* Program constants *)

IB_PORT   == 7497
CLIENT_ID == 1
IB_HOST   == "127.0.0.1"

------------------------------------------------------------------------------
(* Strings are sequences of one-character strings, so that str.upper() and *)
(* int() are computed and not assumed.                                     *)

SymChars == {"a", "ß"}

SeqsUpTo(S, n) == UNION {[1..k -> S] : k \in 0..n}

\* the characters int() drops around a number, those a string of the model
\* can hold
WhiteSpace ==
    {"\t", "\n", "", "\f", "\r", " ", "", " ", " "}

\* the characters of the model: the white space above, ASCII and Latin-1
\* (but the grave accent and the y with diaeresis) and the capital mu;
\* a string with any other character is outside the model
Chars ==
    WhiteSpace \cup
    {"!", "\"", "#", "$", "%", "&", "'", "(", ")", "*", "+", ",", "-", ".",
     "/", "0", "1", "2", "3", "4", "5", "6", "7", "8", "9", ":", ";", "<",
     "=", ">", "?", "@", "A", "B", "C", "D", "E", "F", "G", "H", "I", "J",
     "K", "L", "M", "N", "O", "P", "Q", "R", "S", "T", "U", "V", "W", "X",
     "Y", "Z", "[", "\\", "]", "^", "_", "a", "b", "c", "d", "e", "f", "g",
     "h", "i", "j", "k", "l", "m", "n", "o", "p", "q", "r", "s", "t", "u",
     "v", "w", "x", "y", "z", "{", "|", "}", "~", "¡", "¢", "£", "¤", "¥",
     "¦", "§", "¨", "©", "ª", "«", "¬", "­", "®", "¯", "°", "±", "²", "³",
     "´", "µ", "¶", "·", "¸", "¹", "º", "»", "¼", "½", "¾", "¿", "À", "Á",
     "Â", "Ã", "Ä", "Å", "Æ", "Ç", "È", "É", "Ê", "Ë", "Ì", "Í", "Î", "Ï",
     "Ð", "Ñ", "Ò", "Ó", "Ô", "Õ", "Ö", "×", "Ø", "Ù", "Ú", "Û", "Ü", "Ý",
     "Þ", "ß", "à", "á", "â", "ã", "ä", "å", "æ", "ç", "è", "é", "ê", "ë",
     "ì", "í", "î", "ï", "ð", "ñ", "ò", "ó", "ô", "õ", "ö", "÷", "ø", "ù",
     "ú", "û", "ü", "ý", "þ", "Μ"}

\* the letters str.upper() changes into one other character, and what it
\* changes them into, in the same order
LowerCase ==
    <<"a", "b", "c", "d", "e", "f", "g", "h", "i", "j", "k", "l", "m", "n",
      "o", "p", "q", "r", "s", "t", "u", "v", "w", "x", "y", "z", "µ", "à",
      "á", "â", "ã", "ä", "å", "æ", "ç", "è", "é", "ê", "ë", "ì", "í", "î",
      "ï", "ð", "ñ", "ò", "ó", "ô", "õ", "ö", "ø", "ù", "ú", "û", "ü", "ý",
      "þ">>
UpperCase ==
    <<"A", "B", "C", "D", "E", "F", "G", "H", "I", "J", "K", "L", "M", "N",
      "O", "P", "Q", "R", "S", "T", "U", "V", "W", "X", "Y", "Z", "Μ", "À",
      "Á", "Â", "Ã", "Ä", "Å", "Æ", "Ç", "È", "É", "Ê", "Ë", "Ì", "Í", "Î",
      "Ï", "Ð", "Ñ", "Ò", "Ó", "Ô", "Õ", "Ö", "Ø", "Ù", "Ú", "Û", "Ü", "Ý",
      "Þ">>

\* the characters repr() writes as an escape, and the escapes, in the same
\* order
Unprintable ==
    <<"\t", "\n", "", "\f", "\r", "", " ", " ", "­">>
Escapes ==
    <<"\\t", "\\n", "\\x0b", "\\x0c", "\\r", "\\x85", "\\xa0", "\\u1680",
      "\\xad">>

\* a character of the model, standing for itself
Char == [c \in Chars |-> c]

\* str.upper() on one character: the characters it becomes
UpperChar(c) ==
    IF Char[c] = "ß" THEN <<"S", "S">>
    ELSE IF \E i \in 1..Len(LowerCase) : LowerCase[i] = c
    THEN <<UpperCase[CHOOSE i \in 1..Len(LowerCase) : LowerCase[i] = c]>>
    ELSE <<c>>

\* the string passed on as it came
UpperSkipped(s) == s

RECURSIVE Upper(_)
\* str.upper()
Upper(s) == IF s = <<>> THEN <<>> ELSE UpperChar(Head(s)) \o Upper(Tail(s))

RECURSIVE Text(_)
\* the characters of s as one string, for messages
Text(s) == IF s = <<>> THEN "" ELSE Head(s) \o Text(Tail(s))

BUY  == <<"B", "U", "Y">>
SELL == <<"S", "E", "L", "L">>

IsDigit(c) ==
    Char[c] \in {"0", "1", "2", "3", "4", "5", "6", "7", "8", "9"}

DigitVal(c) ==
    CASE c = "0" -> 0 [] c = "1" -> 1 [] c = "2" -> 2 [] c = "3" -> 3
      [] c = "4" -> 4 [] c = "5" -> 5 [] c = "6" -> 6 [] c = "7" -> 7
      [] c = "8" -> 8 [] c = "9" -> 9

RECURSIVE DigitsVal(_)
DigitsVal(s) ==
    IF s = <<>> THEN 0
    ELSE DigitsVal(SubSeq(s, 1, Len(s) - 1)) * 10 + DigitVal(s[Len(s)])

(* JSON values of the request body.  Absent marks a key the body lacks. *)
Absent == [t |-> "absent"]
JNull  == [t |-> "null"]
JInt(n)   == [t |-> "int", v |-> n]
JStr(s)   == [t |-> "str", v |-> s]
JFloat(k) == [t |-> "float", tenths |-> k]     \* the number k/10
JBool(b)  == [t |-> "bool", v |-> b]
JList     == [t |-> "list"]
JDict     == [t |-> "dict"]

\* type(x).__name__ of a JSON value
TypeName(x) ==
    CASE x.t = "null"  -> "NoneType"
      [] x.t = "int"   -> "int"
      [] x.t = "float" -> "float"
      [] x.t = "bool"  -> "bool"
      [] x.t = "str"   -> "str"
      [] x.t = "list"  -> "list"
      [] x.t = "dict"  -> "dict"

\* Python int(x): the value, or Raises when int() raises
Raises == [t |-> "raises"]

IsSpace(c) == Char[c] \in WhiteSpace

RECURSIVE LStrip(_)
LStrip(s) == IF s # <<>> /\ IsSpace(Head(s)) THEN LStrip(Tail(s)) ELSE s

RECURSIVE RStrip(_)
RStrip(s) ==
    IF s # <<>> /\ IsSpace(s[Len(s)]) THEN RStrip(SubSeq(s, 1, Len(s) - 1))
    ELSE s

\* str.strip() of white space
Strip(s) == RStrip(LStrip(s))

\* decimal digits, single underscores allowed between two digits
AllDigits(s) ==
    /\ s # <<>>
    /\ IsDigit(s[1]) /\ IsDigit(s[Len(s)])
    /\ \A i \in 1..Len(s) : IsDigit(s[i]) \/ s[i] = "_"
    /\ \A i \in 1..(Len(s) - 1) : ~(s[i] = "_" /\ s[i + 1] = "_")

DigitsOf(s) == SelectSeq(s, IsDigit)

\* int() of a string: white space around it is dropped, then an optional
\* sign and the digits
PyIntStr(s) ==
    LET t == Strip(s) IN
    IF AllDigits(t) THEN JInt(DigitsVal(DigitsOf(t)))
    ELSE IF t # <<>> /\ Head(t) = "-" /\ AllDigits(Tail(t))
    THEN JInt(-DigitsVal(DigitsOf(Tail(t))))
    ELSE IF t # <<>> /\ Head(t) = "+" /\ AllDigits(Tail(t))
    THEN JInt(DigitsVal(DigitsOf(Tail(t))))
    ELSE Raises

PyInt(x) ==
    CASE x.t = "int"   -> JInt(x.v)
      [] x.t = "bool"  -> JInt(IF x.v THEN 1 ELSE 0)
      [] x.t = "float" -> JInt(IF x.tenths >= 0 THEN x.tenths \div 10
                               ELSE -((-x.tenths) \div 10))
      [] x.t = "str"   -> PyIntStr(x.v)
      [] OTHER         -> Raises

\* the quote repr() puts around a string
Quote(s) ==
    IF /\ \E i \in 1..Len(s) : s[i] = "'"
       /\ ~\E i \in 1..Len(s) : s[i] = "\""
    THEN "\"" ELSE "'"

\* one character as repr() writes it between the quotes q
ReprChar(c, q) ==
    IF Char[c] = "\\" THEN "\\\\"
    ELSE IF c = "'" /\ q = "'" THEN "\\'"
    ELSE IF \E i \in 1..Len(Unprintable) : Unprintable[i] = c
    THEN Escapes[CHOOSE i \in 1..Len(Unprintable) : Unprintable[i] = c]
    ELSE c

RECURSIVE ReprText(_, _)
ReprText(s, q) ==
    IF s = <<>> THEN "" ELSE ReprChar(Head(s), q) \o ReprText(Tail(s), q)

\* repr() of a string
Repr(s) == Quote(s) \o ReprText(s, Quote(s)) \o Quote(s)

\* str(e) of the exception int(x) raises
PyIntMessage(x) ==
    IF x.t = "str"
    THEN "invalid literal for int() with base 10: " \o Repr(x.v)
    ELSE "int() argument must be a string, a bytes-like object or a real number, not '"
             \o TypeName(x) \o "'"

SymbolValues ==
    {Absent, JInt(7)} \cup {JStr(s) : s \in SeqsUpTo(SymChars, MaxSymLen)}

QtyStrings == {<<"7">>, <<"x">>, <<" ", "-", "1", "_", "7", " ">>}

QuantityValues ==
    {Absent, JNull, JFloat(27), JBool(TRUE)}
        \cup {JInt(n) : n \in -1..MaxQty}
        \cup {JStr(s) : s \in QtyStrings}

\* a JSON object with optional symbol, quantity and extras
ObjectBodies ==
    [json : {"object"}, names : {FALSE}, symbol : SymbolValues,
     quantity : QuantityValues, extra : BOOLEAN]

\* JSON values that are no object: null, a number, true or false, and a
\* string or an array which contains both "symbol" and "quantity" (names) or
\* does not
OtherBodies ==
    [json : {"null", "int", "float", "bool"}, names : {FALSE}, symbol : {Absent},
     quantity : {Absent}, extra : {FALSE}]
        \cup [json : {"string", "array"}, names : BOOLEAN, symbol : {Absent},
              quantity : {Absent}, extra : {FALSE}]

\* what request.get_json() returns
Bodies == ObjectBodies \cup OtherBodies

------------------------------------------------------------------------------
(* The gateway script of one operation *)

Trades == {[order_id |-> 1, status |-> "PendingSubmit"],
           [order_id |-> 2, status |-> "Submitted"]}

GwScripts ==
    [conn  : {"ok", "notlive", "raise"},   \* ib.connectAsync
     drop  : {"none", "afterConnect", "late"},  \* external disconnect
     acct  : {"ok", "raise"},              \* ib.managedAccounts
     qual  : {"one", "none", "raise"},     \* ib.qualifyContractsAsync
     place : {"ok", "raise"},              \* ib.placeOrder
     disc  : {"ok", "raise"},              \* ib.disconnect
     trade : Trades]                       \* what placeOrder returns

GwExcMsg == "gateway exception"            \* str(e) of a gateway exception

\* gateway calls, as logged per operation, each with what it did
CallConnect(liveBefore, res) ==
    [call |-> "connectAsync", live |-> liveBefore, res |-> res]
CallAccounts(res) == [call |-> "managedAccounts", res |-> res]
CallQualify(symbol, res) ==
    [call |-> "qualifyContractsAsync", symbol |-> symbol, res |-> res]
CallPlace(symbol, action, quantity, res) ==
    [call |-> "placeOrder", symbol |-> symbol, action |-> action,
     quantity |-> quantity, order_type |-> "MARKET", res |-> res]
CallDisconnect(res) == [call |-> "disconnect", res |-> res]

\* how an operation ends: a returned value or a propagated exception
Return(v)  == [kind |-> "return", val |-> v]
Raise(msg) == [kind |-> "raise", msg |-> msg]

\* What an operation leaves behind: how it ended, trader.connected, the
\* liveness of the shared client, the gateway calls it made, whether its
\* except branch ran, and whether a connection it opened is still open.
Outcome(out, flag, live, calls, gwExc, openAfter) ==
    [out |-> out, connected |-> flag, live |-> live, calls |-> calls,
     gwExc |-> gwExc, openAfter |-> openAfter]

\* result values
FailedToConnect == [error |-> "Failed to connect to IBKR"]
NoActiveConnection == [error |-> "No active connection to IBKR"]
CouldNotQualify(symbol) ==
    [error |-> "Could not qualify contract for symbol " \o Text(symbol)]
ExcResult(msg) == [error |-> msg]
\* an order reported as failed after it went out
OrderResultUnconfirmed(symbol, action, quantity, trade) ==
    [error |-> "order not confirmed"]

\* the dict returned after the sleep
OrderResult(symbol, action, quantity, trade) ==
    [success |-> TRUE, order_id |-> trade.order_id, symbol |-> symbol,
     action |-> action, quantity |-> quantity, order_type |-> "MARKET",
     status |-> trade.status]
Accounts(live) == IF live THEN <<"DU1">> ELSE <<>>
SuccessReport(live) ==
    [success |-> TRUE, connected |-> TRUE, accounts |-> Accounts(live),
     host |-> IB_HOST, port |-> IB_PORT, client_id |-> CLIENT_ID]

\* `if not qualified_contracts`: the qualification matched nothing
NotQualified(gw) == gw.qual = "none"

\* `self.connected = False` of the except handlers
ExceptFlagKept(flag) == flag
ExceptFlag(flag) == FALSE

------------------------------------------------------------------------------
(* src/api/index.py: the long-lived session.  flag is trader.connected,    *)
(* live is trader.ib.isConnected() when the operation starts.              *)

\* IBKRTrader.connect; ret is the boolean it returns
index_connect(flag, live, gw) ==
    IF live
    THEN [ret |-> TRUE, connected |-> TRUE, live |-> TRUE, calls |-> <<>>,
          gwExc |-> FALSE]
    ELSE LET c == <<CallConnect(live, gw.conn)>> IN
         CASE gw.conn = "ok" ->
                [ret |-> TRUE, connected |-> TRUE, live |-> TRUE, calls |-> c,
                 gwExc |-> FALSE]
           [] gw.conn = "notlive" ->
                [ret |-> FALSE, connected |-> FALSE, live |-> FALSE,
                 calls |-> c, gwExc |-> FALSE]
           [] gw.conn = "raise" ->
                [ret |-> FALSE, connected |-> FALSE, live |-> FALSE,
                 calls |-> c, gwExc |-> TRUE]

\* IBKRTrader.test_connection
index_test_connection(flag, live, gw) ==
    LET needs == ~flag
        c     == IF needs THEN <<CallConnect(live, gw.conn)>> ELSE <<>>
        live1 == IF needs THEN gw.conn = "ok" ELSE live
    IN  IF needs /\ gw.conn = "raise"
        THEN Outcome(Return([success |-> FALSE]), ExceptFlag(flag), live1, c,
                     TRUE, FALSE)
        ELSE LET calls == Append(c, CallAccounts(gw.acct)) IN
             IF gw.acct = "raise"
             THEN Outcome(Return([success |-> FALSE]), ExceptFlag(TRUE), live1,
                          calls, TRUE, FALSE)
             ELSE Outcome(Return(SuccessReport(live1)), TRUE, live1, calls,
                          FALSE, FALSE)

\* IBKRTrader.disconnect
index_disconnect(flag, live, gw) ==
    IF flag
    THEN IF gw.disc = "raise"
         THEN Outcome(Raise(GwExcMsg), flag, live,
                      <<CallDisconnect("raise")>>, FALSE, FALSE)
         ELSE Outcome(Return([none |-> TRUE]), FALSE, FALSE,
                      <<CallDisconnect("ok")>>, FALSE, FALSE)
    ELSE Outcome(Return([none |-> TRUE]), flag, live, <<>>, FALSE, FALSE)

\* IBKRTrader.place_market_order
index_place_market_order(flag, live, symbol, action, quantity, gw) ==
    LET c     == index_connect(FALSE, live, gw)
        flag1 == IF live THEN flag ELSE c.connected
        live1 == IF live THEN live ELSE c.live
        calls1 == IF live THEN <<>> ELSE c.calls
        live2 == live1 /\ gw.drop # "afterConnect"
        live3 == live2 /\ gw.drop # "late"
        calls2 == Append(calls1, CallQualify(symbol, gw.qual))
        calls3 == Append(calls2,
                         CallPlace(symbol, Upper(action), quantity, gw.place))
    IN  IF ~live /\ ~c.ret
        THEN Outcome(Return(FailedToConnect), flag1, live1, calls1, c.gwExc,
                     FALSE)
        ELSE IF ~live2
        THEN Outcome(Return(NoActiveConnection), flag1, live2, calls1, FALSE,
                     FALSE)
        ELSE IF gw.qual = "raise"
        THEN Outcome(Return(ExcResult(GwExcMsg)), ExceptFlag(flag1), live3,
                     calls2, TRUE, FALSE)
        ELSE IF NotQualified(gw)
        THEN Outcome(Return(CouldNotQualify(symbol)), flag1, live3, calls2,
                     FALSE, FALSE)
        ELSE IF gw.place = "raise"
        THEN Outcome(Return(ExcResult(GwExcMsg)), ExceptFlag(flag1), live3,
                     calls3, TRUE, FALSE)
        ELSE Outcome(Return(OrderResult(symbol, action, quantity, gw.trade)),
                     flag1, live3, calls3, FALSE, FALSE)

------------------------------------------------------------------------------
(* src/app.py: the per-request session.  Every operation opens its own IB  *)
(* client; opened says whether the client it holds is connected.           *)

FailureReport(msg) ==
    [success |-> FALSE, error |-> msg, host |-> IB_HOST, port |-> IB_PORT,
     client_id |-> CLIENT_ID]

\* IBKRTrader.connect; ib is TRUE when it returns a connected client,
\* FALSE when it returns None
app_connect(flag, gw) ==
    LET c == <<CallConnect(FALSE, gw.conn)>> IN
    CASE gw.conn = "ok" ->
           [ib |-> TRUE, connected |-> TRUE, calls |-> c, gwExc |-> FALSE]
      [] gw.conn = "notlive" ->
           [ib |-> FALSE, connected |-> FALSE, calls |-> c, gwExc |-> FALSE]
      [] gw.conn = "raise" ->
           [ib |-> FALSE, connected |-> FALSE, calls |-> c, gwExc |-> TRUE]

\* the operations without their finally block
app_finally_missing(body, open, gw) == [body EXCEPT !.openAfter = open]

\* The finally block of test_connection and place_market_order: body is the
\* outcome of the try/except part, open whether the client is connected
\* when the block is entered.  A disconnect that raises replaces the
\* pending return and leaves the teardown undone.
app_finally(body, open, gw) ==
    IF ~open
    THEN [body EXCEPT !.openAfter = FALSE]
    ELSE IF gw.disc = "raise"
    THEN [body EXCEPT !.out = Raise(GwExcMsg),
                      !.calls = Append(body.calls, CallDisconnect("raise")),
                      !.openAfter = TRUE]
    ELSE [body EXCEPT !.calls = Append(body.calls, CallDisconnect("ok")),
                      !.openAfter = FALSE]

\* IBKRTrader.test_connection
app_test_connection(flag, gw) ==
    LET c     == app_connect(flag, gw)
        calls == Append(c.calls, CallAccounts(gw.acct))
        open  == c.ib /\ gw.drop = "none"
        body  ==
            IF ~c.ib
            THEN Outcome(Return(FailureReport("Failed to establish connection")),
                         c.connected, FALSE, c.calls, c.gwExc, FALSE)
            ELSE IF gw.acct = "raise"
            THEN Outcome(Return(FailureReport(GwExcMsg)),
                         ExceptFlag(c.connected), FALSE, calls, TRUE, open)
            ELSE Outcome(Return(SuccessReport(TRUE)), c.connected, FALSE,
                         calls, FALSE, open)
    IN  app_finally(body, open, gw)

\* IBKRTrader.disconnect
app_disconnect(flag, gw) ==
    Outcome(Return([none |-> TRUE]), FALSE, FALSE, <<>>, FALSE, FALSE)

\* IBKRTrader.place_market_order
app_place_market_order(flag, symbol, action, quantity, gw) ==
    LET c      == app_connect(flag, gw)
        calls2 == Append(c.calls, CallQualify(symbol, gw.qual))
        calls3 == Append(calls2,
                         CallPlace(symbol, Upper(action), quantity, gw.place))
        open   == c.ib /\ gw.drop = "none"
        body   ==
            IF ~c.ib
            THEN Outcome(Return(FailedToConnect), c.connected, FALSE, c.calls,
                         c.gwExc, FALSE)
            ELSE IF gw.qual = "raise"
            THEN Outcome(Return(ExcResult(GwExcMsg)), ExceptFlag(c.connected),
                         FALSE, calls2, TRUE, open)
            ELSE IF NotQualified(gw)
            THEN Outcome(Return(CouldNotQualify(symbol)), c.connected, FALSE,
                         calls2, FALSE, open)
            ELSE IF gw.place = "raise"
            THEN Outcome(Return(ExcResult(GwExcMsg)), ExceptFlag(c.connected),
                         FALSE, calls3, TRUE, open)
            ELSE Outcome(Return(OrderResult(symbol, action, quantity,
                                            gw.trade)),
                         c.connected, FALSE, calls3, FALSE, open)
    IN  app_finally(body, open, gw)

------------------------------------------------------------------------------
(* The HTTP layer, the same in both files but for the session it calls.    *)

MissingFields == [error |-> "Missing required fields: symbol and quantity"]
NoValue == [none |-> TRUE]

\* no session operation was invoked
NoOperation(flag, live) ==
    Outcome(Return(NoValue), flag, live, <<>>, FALSE, FALSE)

Response(code, body, invoked, ses) ==
    [code |-> code, body |-> body, invoked |-> invoked, ses |-> ses]

place_market_order(v, flag, live, symbol, action, quantity, gw) ==
    IF v = "index"
    THEN index_place_market_order(flag, live, symbol, action, quantity, gw)
    ELSE app_place_market_order(flag, symbol, action, quantity, gw)

test_connection(v, flag, live, gw) ==
    IF v = "index"
    THEN index_test_connection(flag, live, gw)
    ELSE app_test_connection(flag, gw)

\* `'symbol' not in data or 'quantity' not in data`, for data a dict, a
\* string or a list
Missing(data) ==
    IF data.json = "object"
    THEN data.symbol = Absent \/ data.quantity = Absent
    ELSE ~data.names

\* str(e) of the TypeError of `'symbol' in data` or data['symbol'] when data
\* is no dict
NotADict(data) ==
    CASE data.json = "null" -> "argument of type 'NoneType' is not iterable"
      [] data.json \in {"int", "float", "bool"} ->
            "argument of type '" \o data.json \o "' is not iterable"
      [] data.json = "string" -> "string indices must be integers, not 'str'"
      [] data.json = "array" ->
            "list indices must be integers or slices, not str"

\* every session result answered 200
order_response_always_ok(r) ==
    IF r.out.kind = "raise"
    THEN Response(500, ExcResult(r.out.msg), TRUE, r)
    ELSE Response(200, r.out.val, TRUE, r)

\* the status code of a session result, and the route's except handler
order_response(r) ==
    IF r.out.kind = "raise"
    THEN Response(500, ExcResult(r.out.msg), TRUE, r)
    ELSE IF "error" \in DOMAIN r.out.val
    THEN Response(500, r.out.val, TRUE, r)
    ELSE Response(200, r.out.val, TRUE, r)

\* the request goes on to the session
Valid == [code |-> 0]

\* the route up to the call of place_market_order: the answer it gives
\* without calling the session, or Valid; data is request.get_json()
order_validate(data, flag, live) ==
    IF data.json \in {"null", "int", "float", "bool"}
    THEN Response(500, ExcResult(NotADict(data)), FALSE,
                  NoOperation(flag, live))
    ELSE IF Missing(data)
    THEN Response(400, MissingFields, FALSE, NoOperation(flag, live))
    ELSE IF data.json # "object"
    THEN Response(500, ExcResult(NotADict(data)), FALSE,
                  NoOperation(flag, live))
    ELSE IF data.symbol.t # "str"
    THEN Response(500,
                  ExcResult("'" \o TypeName(data.symbol)
                                \o "' object has no attribute 'upper'"),
                  FALSE, NoOperation(flag, live))
    ELSE IF PyInt(data.quantity) = Raises
    THEN Response(500, ExcResult(PyIntMessage(data.quantity)), FALSE,
                  NoOperation(flag, live))
    ELSE Valid

\* the body shared by buy_stock and sell_stock, run without interruption
order_route(v, action, data, flag, live, gw) ==
    IF order_validate(data, flag, live) # Valid
    THEN order_validate(data, flag, live)
    ELSE LET symbol   == Upper(data.symbol.v)
             quantity == PyInt(data.quantity).v
             r == place_market_order(v, flag, live, symbol, action, quantity,
                                     gw)
         IN  order_response(r)

\* POST /buy
buy_stock(v, data, flag, live, gw) ==
    order_route(v, BUY, data, flag, live, gw)

\* POST /sell
sell_stock(v, data, flag, live, gw) ==
    order_route(v, SELL, data, flag, live, gw)

\* the answer of GET /test-connection to what the session returned
test_response(r) ==
    IF r.out.kind = "raise"
    THEN Response(500, ExcResult(r.out.msg), TRUE, r)
    ELSE Response(200, r.out.val, TRUE, r)

\* GET /test-connection, run without interruption
test_connection_route(v, flag, live, gw) ==
    test_response(test_connection(v, flag, live, gw))

\* the URLs the test script and the route tables name for GET
GetPaths == {"/", "/status", "/health", "/account"}

\* the informational routes each file registers
Routed(v) ==
    IF v = "index" THEN {"/", "/status"} ELSE {"/", "/status", "/health"}

\* the "config" object of the status report
Config == [host |-> IB_HOST, port |-> IB_PORT, client_id |-> CLIENT_ID]

\* GET /
home(v, flag, live) ==
    Response(200,
             IF v = "index"
             THEN [message |-> "Simple IBKR Paper Trading API",
                   endpoints |-> {"/buy", "/sell", "/status",
                                  "/test-connection"}]
             ELSE [message |-> "Simple IBKR Paper Trading API",
                   version |-> "1.0.0", environment |-> "local",
                   endpoints |-> {"/", "/health", "/status",
                                  "/test-connection", "/buy", "/sell"}],
             FALSE, NoOperation(flag, live))

\* GET /status
status(v, flag, live) ==
    Response(200,
             IF v = "index"
             THEN [status |-> "online", connected_to_ibkr |-> flag,
                   trading_mode |-> "paper", config |-> Config]
             ELSE [status |-> "online", environment |-> "local",
                   trading_mode |-> "paper", config |-> Config],
             FALSE, NoOperation(flag, live))

\* str(e) of the RuntimeError of asyncio.get_event_loop(), without the name
\* of the thread
NoEventLoop == "There is no current event loop in thread"

\* GET /health (app.py); hasLoop says whether asyncio.get_event_loop() finds
\* or makes a loop in the thread of the handler.  The timestamp, a reading
\* of the loop's clock, is left out of the body; without a loop the call
\* raises, the handler has no try, and the framework answers 500.
health(v, flag, live, hasLoop) ==
    IF hasLoop
    THEN Response(200, [status |-> "healthy", environment |-> "local"], FALSE,
                  NoOperation(flag, live))
    ELSE Response(500, [unhandled |-> NoEventLoop], FALSE,
                  NoOperation(flag, live))

\* the framework's answer to a URL without a route
not_found(v, flag, live) ==
    Response(404, [error |-> "Not Found"], FALSE, NoOperation(flag, live))

\* dispatch of a GET by the route table
get_route(v, path, flag, live, hasLoop) ==
    IF path \notin Routed(v) THEN not_found(v, flag, live)
    ELSE IF path = "/" THEN home(v, flag, live)
    ELSE IF path = "/status" THEN status(v, flag, live)
    ELSE health(v, flag, live, hasLoop)

------------------------------------------------------------------------------
(* The state machine.  The requests run in threads of the server with the  *)
(* module-level trader in common and no lock.  A step of a request is one  *)
(* statement that reads or writes the trader (its flag or its client), or  *)
(* the return of an await; everything a request does on its own between    *)
(* two such statements belongs to the step before.  Other requests, the    *)
(* informational routes and a drop of the connection come in between.      *)

Procs == {1, 2}

NoBody == [json |-> "object", names |-> FALSE, symbol |-> Absent,
           quantity |-> Absent, extra |-> FALSE]

\* no request is being observed
NoRequest ==
    [kind |-> "none", body |-> NoBody, startConnected |-> FALSE,
     startLive |-> FALSE, prevExc |-> FALSE, prevConnectOk |-> FALSE,
     dropped |-> "none"]

\* a POST the server has received and whose handler has not started
Received(kind, body) == [NoRequest EXCEPT !.kind = kind, !.body = body]

\* the request whose handler starts now, with the session state it finds
Started(kind, body) ==
    [kind |-> kind, body |-> body, startConnected |-> connected,
     startLive |-> ibLive, prevExc |-> afterExc,
     prevConnectOk |-> (last.op = "connect" /\ last.out = Return([ok |-> TRUE])),
     dropped |-> "none"]

Observed(pend) == pend.kind # "none"

NoTrade == [order_id |-> 0, status |-> ""]
NoOut == [kind |-> "running"]

\* a gateway call of the operation raised (the except branch ran)
GwExc(calls) ==
    \E i \in 1..Len(calls) :
        calls[i].res = "raise" /\ calls[i].call # "disconnect"

\* an operation that ended before this one began had caught a gateway
\* exception
PrevExc ==
    \/ afterExc
    \/ \E q \in Procs : par.req[q].pc = "done" /\ GwExc(par.req[q].calls)

\* A request that begins the session operation op: the statement it is at,
\* the client connect() gave it (app.py) and whether that client is
\* connected, what it returns, its gateway calls and the trade placeOrder
\* gave it; and what it has seen and done on the trader: the flag and the
\* liveness of the client when it began (startConnected, startLive), what
\* its test before the handshake found (chk: line 33 or 55 of api/index.py),
\* what the verification after the handshake found (ver), what connect()
\* returned (ret), the last value it assigned to the flag (wrote), whether
\* another handshake was in flight when it called connectAsync (raced), and
\* the flag when it returned and whether the last assignment was its own
\* (flagAfter, mine); prevExc and prevConnectOk say that an operation that
\* had ended when this one began had caught a gateway exception, or was a
\* connect() that returned success.
Fresh(op) ==
    [pc |-> "start", op |-> op, ib |-> FALSE, open |-> FALSE, out |-> NoOut,
     calls |-> <<>>, trade |-> NoTrade,
     startConnected |-> FALSE, startLive |-> FALSE, prevExc |-> FALSE,
     prevConnectOk |-> FALSE,
     chk |-> "none", ver |-> "none", ret |-> "none", wrote |-> "none",
     raced |-> FALSE, flagAfter |-> FALSE, mine |-> FALSE]

IdleSlot == [Fresh("none") EXCEPT !.pc = "idle"]

\* no request is in the session; lastw is the request that assigned the
\* flag last
Idle == [req |-> [p \in Procs |-> IdleSlot], wrote |-> {}, lastw |-> 0]

\* a connect() that ended before this operation began returned success
PrevConnectOk ==
    \/ last.op = "connect" /\ last.out = Return([ok |-> TRUE])
    \/ \E q \in Procs : /\ par.req[q].pc = "done"
                        /\ par.req[q].op = "connect"
                        /\ par.req[q].out = Return([ok |-> TRUE])

\* the request op at its first statement, with the trader it finds
Begun(op) ==
    [Fresh(op) EXCEPT !.startConnected = connected, !.startLive = ibLive,
                      !.prevExc = PrevExc, !.prevConnectOk = PrevConnectOk]

\* the record kept of the last step: the operation, its input, the session
\* state it started from, and everything it answered and did
History(pend, healthy, trade, rsp) ==
    [op |-> pend.kind, body |-> pend.body,
     recheckDead |-> (pend.dropped = "afterConnect"),
     unscripted |-> (pend.dropped = "unscripted"),
     startConnected |-> pend.startConnected, startLive |-> pend.startLive,
     prevExc |-> pend.prevExc, prevConnectOk |-> pend.prevConnectOk,
     healthy |-> healthy, trade |-> trade,
     code |-> rsp.code, resp |-> rsp.body, invoked |-> rsp.invoked,
     out |-> rsp.ses.out, calls |-> rsp.ses.calls, gwExc |-> rsp.ses.gwExc,
     openAfter |-> rsp.ses.openAfter]

NoHistory(op) ==
    [op |-> op, body |-> NoBody, recheckDead |-> FALSE, unscripted |-> FALSE,
     startConnected |-> FALSE,
     startLive |-> FALSE, prevExc |-> FALSE, prevConnectOk |-> FALSE,
     healthy |-> FALSE,
     trade |-> NoTrade, code |-> 0, resp |-> NoValue, invoked |-> FALSE,
     out |-> Return(NoValue), calls |-> <<>>, gwExc |-> FALSE,
     openAfter |-> FALSE]

\* the gateway answered every call and nothing dropped the connection
HealthyRun(pend, slot) ==
    /\ pend.dropped = "none"
    /\ \A i \in 1..Len(slot.calls) : slot.calls[i].res \in {"ok", "one"}

\* the symbol, quantity and action the route passes to place_market_order,
\* and the order a request outside the observed one places
ParSymbol == <<"A">>
ParQuantity == MaxQty
ParTrade == CHOOSE t \in Trades : t.status = "PendingSubmit"

OpSymbol ==
    IF pending.kind \in {"buy", "sell"} THEN Upper(pending.body.symbol.v)
    ELSE ParSymbol
OpQuantity ==
    IF pending.kind \in {"buy", "sell"} THEN PyInt(pending.body.quantity).v
    ELSE ParQuantity
OpAction(op) == IF op = "sell" THEN SELL ELSE BUY

\* what one gateway call can do, as the part of a script the call reads
ConnScripts  == {[conn |-> g.conn] : g \in GwScripts}
AcctScripts  == {[acct |-> g.acct] : g \in GwScripts}
QualScripts  == {[qual |-> g.qual] : g \in GwScripts}
PlaceScripts == {[place |-> g.place] : g \in GwScripts}
DiscScripts  == {[disc |-> g.disc] : g \in GwScripts}

\* a gateway call the request is waiting in, and the call when it is back
Waiting == "pending"
Back(calls, res) == [calls EXCEPT ![Len(calls)].res = res]

\* the answer of the route to what the session operation returned
Answer(op, ses) ==
    IF op \in {"buy", "sell"} THEN order_response(ses)
    ELSE IF op = "test" THEN test_response(ses)
    ELSE Response(0, NoValue, TRUE, ses)

\* the requests in connectAsync
Inflight == {p \in Procs : par.req[p].pc = "handshake"}

\* asyncio.run, in which every session operation runs, leaves the thread
\* without a current event loop
AfterRun(l) == IF l = "fresh" THEN "gone" ELSE l

\* the request after a step in which it assigned flag2 to the flag, or did
\* not
Assigned(slot, flag2, writes) ==
    IF writes
    THEN [slot EXCEPT !.wrote = IF flag2 THEN "true" ELSE "false"]
    ELSE slot

\* One step of request p after which it has more to do: the flag and the
\* liveness of the shared client after it, and the request after it.
Step(pend, p, flag2, live2, slot, writes) ==
    /\ connected' = flag2
    /\ ibLive' = live2
    /\ par' = [req   |-> [par.req EXCEPT ![p] = Assigned(slot, flag2, writes)],
               wrote |-> IF writes THEN par.wrote \cup {p} ELSE par.wrote,
               lastw |-> IF writes THEN p ELSE par.lastw]
    /\ pending' = pend
    /\ last' = IF Observed(pend) THEN NoHistory("running") ELSE last
    /\ loop' = AfterRun(loop)
    /\ UNCHANGED <<variant, afterExc>>

\* The step of request p in which its operation returns and its route
\* answers.
Finish(pend, p, flag2, live2, slot, writes) ==
    /\ connected' = flag2
    /\ ibLive' = live2
    /\ IF Observed(pend)
       THEN LET ses == Outcome(slot.out, flag2, live2, slot.calls,
                               GwExc(slot.calls), slot.open)
                ok  == HealthyRun(pend, slot)
            IN  /\ last' = History(pend, ok,
                                   IF ok THEN slot.trade ELSE NoTrade,
                                   Answer(slot.op, ses))
                /\ afterExc' = GwExc(slot.calls)
                /\ pending' = NoRequest
                /\ par' = Idle
       ELSE /\ par' = [req   |-> [par.req EXCEPT
                                     ![p] = [Assigned(slot, flag2, writes)
                                                EXCEPT
                                                !.pc = "done",
                                                !.flagAfter = flag2,
                                                !.mine = (writes
                                                          \/ par.lastw = p)]],
                       wrote |-> IF writes THEN par.wrote \cup {p}
                                 ELSE par.wrote,
                       lastw |-> IF writes THEN p ELSE par.lastw]
            /\ UNCHANGED <<afterExc, pending, last>>
    /\ loop' = AfterRun(loop)
    /\ UNCHANGED variant

\* The route answers without calling the session.
Answered(pend, rsp) ==
    /\ last' = History(pend, FALSE, NoTrade, rsp)
    /\ pending' = NoRequest
    /\ UNCHANGED <<variant, connected, ibLive, afterExc, par, loop>>

\* where a request goes when its try block is left with the result out:
\* api/index.py returns, app.py has a finally block
Leave(pend, p, flag2, live2, slot, writes) ==
    IF variant = "index"
    THEN Finish(pend, p, flag2, live2, slot, writes)
    ELSE Step(pend, p, flag2, live2, [slot EXCEPT !.pc = "finally"], writes)

\* what a test of the client or of the flag found
Found(b) == IF b THEN "up" ELSE "down"

------------------------------------------------------------------------------
(* connect() *)

\* a connect that waits for the handshake in flight on the shared client
CanStartHandshakeExclusive(live, inflight) == ~live /\ inflight = {}

\* a connect that never takes the short cut
CanStartHandshakeAlways(live, inflight) == TRUE

\* connect() of api/index.py goes on to connectAsync: the only condition is
\* `self.ib.isConnected()` being false, whoever else is in a handshake
CanStartHandshake(live, inflight) == ~live

\* a connect() that takes every handshake that came back for a connection
VerifiedUnchecked(live) == TRUE

\* `if self.ib.isConnected()` (api/index.py) and `if ib.isConnected()`
\* (app.py) after connectAsync came back: live is what the client says at
\* that moment, the shared client whoever connected it
Verified(live) == live

\* `if not await self.connect()` of place_market_order (api/index.py)
NotConnected(ok) == ~ok

\* a test of the shared flag instead of the request's own client
app_connected_ok_flag(ib, flag) == flag

\* `if not ib` of app.py: the request looks at the client connect() returned
app_connected_ok(ib, flag) == ib

\* `if self.ib.isConnected()` at the head of connect() of api/index.py
CheckLive(pend, p, slot) ==
    LET s == [slot EXCEPT !.chk = Found(ibLive)] IN
    IF CanStartHandshake(ibLive, Inflight)
    THEN Step(pend, p, connected, ibLive, [s EXCEPT !.pc = "c_call"], FALSE)
    ELSE Step(pend, p, connected, ibLive, [s EXCEPT !.pc = "c_short"], FALSE)

\* connect() returns, with the flag it has just assigned: a direct call
\* ends, place_market_order of api/index.py tests what it got, and app.py
\* goes on to its `if not ib`
ConnectReturns(p, flag2, slot, ok) ==
    LET s == [slot EXCEPT !.ret = IF ok THEN "ok" ELSE "failed",
                          !.ib = (variant = "app" /\ ok)]
    IN  IF slot.op = "connect"
        THEN Finish(pending, p, flag2, ibLive,
                    [s EXCEPT !.out = Return([ok |-> ok])], TRUE)
        ELSE IF variant = "app"
        THEN Step(pending, p, flag2, ibLive, [s EXCEPT !.pc = "checked"], TRUE)
        ELSE IF NotConnected(ok)
        THEN Finish(pending, p, flag2, ibLive,
                    [s EXCEPT !.out = Return(FailedToConnect)], TRUE)
        ELSE Step(pending, p, flag2, ibLive, [s EXCEPT !.pc = "p_recheck"],
                  TRUE)

\* `self.connected = False` of place_market_order (api/index.py), before it
\* calls connect()
Reset(p) ==
    /\ par.req[p].pc = "p_reset"
    /\ Step(pending, p, FALSE, ibLive, [par.req[p] EXCEPT !.pc = "c_check"],
            TRUE)

\* connect(), called by place_market_order, looks at the shared client
Check(p) ==
    /\ par.req[p].pc = "c_check"
    /\ CheckLive(pending, p, par.req[p])

\* connect() of api/index.py found the client connected: it sets the flag
\* and returns True
AlreadyLive(p) ==
    /\ par.req[p].pc = "c_short"
    /\ ConnectReturns(p, TRUE, par.req[p], TRUE)

\* connectAsync is called and the request waits in it
BeginHandshake(p) ==
    LET slot == par.req[p] IN
    /\ slot.pc \in {"c_call", "t_call"}
    /\ Step(pending, p, connected, ibLive,
            [slot EXCEPT !.pc = "handshake",
                         !.raced = (Inflight # {}),
                         !.calls = Append(@, CallConnect(variant = "index"
                                                         /\ ibLive, Waiting))],
            FALSE)

\* connectAsync comes back: with the connection up, without it, or raising
\* into the except handler of the operation that called it
FinishHandshake(p) ==
    LET slot == par.req[p] IN
    /\ slot.pc = "handshake"
    /\ \E g \in ConnScripts :
          LET direct == variant = "index" /\ slot.op = "test"
              s == [slot EXCEPT !.calls = Back(@, g.conn),
                                !.open = (variant = "app" /\ g.conn = "ok")]
              live2 == IF variant = "index" THEN g.conn = "ok" ELSE ibLive
          IN  Step(pending, p, connected, live2,
                   [s EXCEPT !.pc = IF g.conn = "raise"
                                    THEN (IF direct THEN "t_except"
                                          ELSE "c_except")
                                    ELSE (IF direct THEN "t_set"
                                          ELSE "c_verify")],
                   FALSE)

\* `if self.ib.isConnected()` / `if ib.isConnected()` after the handshake
Verify(p) ==
    LET slot == par.req[p]
        live == IF variant = "index" THEN ibLive ELSE slot.open
        s == [slot EXCEPT !.ver = Found(live)]
    IN  /\ slot.pc = "c_verify"
        /\ Step(pending, p, connected, ibLive,
                [s EXCEPT !.pc = IF Verified(live) THEN "c_set" ELSE "c_clear"],
                FALSE)

\* `self.connected = True` and the return of connect() after a verified
\* handshake
SetFlag(p) ==
    /\ par.req[p].pc = "c_set"
    /\ ConnectReturns(p, TRUE, par.req[p], TRUE)

\* `self.connected = False` and the return of connect() after a handshake
\* that left no connection
ClearFlag(p) ==
    /\ par.req[p].pc = "c_clear"
    /\ ConnectReturns(p, FALSE, par.req[p], FALSE)

\* the except handler of connect()
ConnectExcept(p) ==
    /\ par.req[p].pc = "c_except"
    /\ ConnectReturns(p, ExceptFlag(connected), par.req[p], FALSE)

------------------------------------------------------------------------------
(* place_market_order *)

\* `if not self.ib.isConnected()` at the head of place_market_order of
\* api/index.py; app.py begins with connect()
PlaceFirst(pend, p, op) ==
    IF variant = "index"
    THEN Step(pend, p, connected, ibLive,
              [Begun(op) EXCEPT !.pc = IF ibLive THEN "p_recheck"
                                       ELSE "p_reset"], FALSE)
    ELSE Step(pend, p, connected, ibLive, [Begun(op) EXCEPT !.pc = "c_call"],
              FALSE)

\* `if not ib` of app.py
CheckClient(p) ==
    LET slot == par.req[p] IN
    /\ slot.pc = "checked"
    /\ IF app_connected_ok(slot.ib, connected)
       THEN Step(pending, p, connected, ibLive,
                 [slot EXCEPT !.pc = IF slot.op = "test" THEN "t_accounts"
                                     ELSE "p_qualify"], FALSE)
       ELSE Step(pending, p, connected, ibLive,
                 [slot EXCEPT
                     !.pc = "finally",
                     !.out = IF slot.op = "test"
                             THEN Return(FailureReport(
                                           "Failed to establish connection"))
                             ELSE Return(FailedToConnect)], FALSE)

\* the second `if not self.ib.isConnected()` of api/index.py
Recheck(p) ==
    LET slot == par.req[p] IN
    /\ slot.pc = "p_recheck"
    /\ IF ibLive
       THEN Step(pending, p, connected, ibLive,
                 [slot EXCEPT !.pc = "p_qualify"], FALSE)
       ELSE Finish(pending, p, connected, ibLive,
                   [slot EXCEPT !.out = Return(NoActiveConnection)], FALSE)

\* qualifyContractsAsync is called and the request waits in it
BeginQualify(p) ==
    LET slot == par.req[p] IN
    /\ slot.pc = "p_qualify"
    /\ Step(pending, p, connected, ibLive,
            [slot EXCEPT !.pc = "qualify",
                         !.calls = Append(@, CallQualify(OpSymbol, Waiting))],
            FALSE)

\* qualifyContractsAsync comes back, and the test of what it returned
Qualify(p) ==
    LET slot == par.req[p] IN
    /\ slot.pc = "qualify"
    /\ \E g \in QualScripts :
          LET s == [slot EXCEPT !.calls = Back(@, g.qual)]
          IN  IF g.qual = "raise"
              THEN Step(pending, p, connected, ibLive,
                        [s EXCEPT !.pc = "p_except"], FALSE)
              ELSE IF NotQualified(g)
              THEN Leave(pending, p, connected, ibLive,
                         [s EXCEPT !.out = Return(CouldNotQualify(OpSymbol))],
                         FALSE)
              ELSE Step(pending, p, connected, ibLive,
                        [s EXCEPT !.pc = "p_place"], FALSE)

\* placeOrder; the request then sleeps with its order placed
Place(p) ==
    LET slot == par.req[p] IN
    /\ slot.pc = "p_place"
    /\ \E g \in PlaceScripts,
          trade \in (IF Observed(pending) THEN Trades ELSE {ParTrade}) :
          LET s == [slot EXCEPT
                       !.calls = Append(@, CallPlace(OpSymbol,
                                                     Upper(OpAction(slot.op)),
                                                     OpQuantity, g.place))]
          IN  IF g.place = "raise"
              THEN Step(pending, p, connected, ibLive,
                        [s EXCEPT !.pc = "p_except"], FALSE)
              ELSE Step(pending, p, connected, ibLive,
                        [s EXCEPT !.pc = "sleep", !.trade = trade], FALSE)

\* the sleep is over and the order result is built
Wake(p) ==
    LET slot == par.req[p] IN
    /\ slot.pc = "sleep"
    /\ Leave(pending, p, connected, ibLive,
             [slot EXCEPT !.out = Return(OrderResult(OpSymbol,
                                                     OpAction(slot.op),
                                                     OpQuantity, slot.trade))],
             FALSE)

\* the except handler of place_market_order
Except(p) ==
    /\ par.req[p].pc = "p_except"
    /\ Leave(pending, p, ExceptFlag(connected), ibLive,
             [par.req[p] EXCEPT !.out = Return(ExcResult(GwExcMsg))], TRUE)

\* the finally block of app.py, and the return
Finally(p) ==
    LET slot == par.req[p]
        body == Outcome(slot.out, connected, ibLive, slot.calls,
                        GwExc(slot.calls), slot.open)
    IN  /\ slot.pc = "finally"
        /\ \E g \in DiscScripts :
              LET r == app_finally(body, slot.ib /\ slot.open, g) IN
              Finish(pending, p, connected, ibLive,
                     [slot EXCEPT !.out = r.out, !.calls = r.calls,
                                  !.open = r.openAfter], FALSE)

------------------------------------------------------------------------------
(* test_connection *)

\* `if not self.connected` at the head of test_connection of api/index.py;
\* app.py begins with connect()
TestFirst(pend, p) ==
    IF variant = "index"
    THEN Step(pend, p, connected, ibLive,
              [Begun("test") EXCEPT !.chk = Found(connected),
                                    !.pc = IF connected THEN "t_accounts"
                                           ELSE "t_call"], FALSE)
    ELSE Step(pend, p, connected, ibLive, [Begun("test") EXCEPT !.pc = "c_call"],
              FALSE)

\* `self.connected = True` of test_connection (api/index.py), whatever the
\* handshake left
SetConnected(p) ==
    /\ par.req[p].pc = "t_set"
    /\ Step(pending, p, TRUE, ibLive, [par.req[p] EXCEPT !.pc = "t_accounts"],
            TRUE)

\* ib.managedAccounts() and the report built from it
Accounted(p) ==
    LET slot == par.req[p] IN
    /\ slot.pc = "t_accounts"
    /\ \E g \in AcctScripts :
          LET s == [slot EXCEPT !.calls = Append(@, CallAccounts(g.acct))] IN
          IF g.acct = "raise"
          THEN Step(pending, p, connected, ibLive,
                    [s EXCEPT !.pc = "t_except"], FALSE)
          ELSE Leave(pending, p, connected, ibLive,
                     [s EXCEPT !.out = Return(SuccessReport(variant = "app"
                                                            \/ ibLive))],
                     FALSE)

\* the except handler of test_connection
TestExcept(p) ==
    /\ par.req[p].pc = "t_except"
    /\ Leave(pending, p, ExceptFlag(connected), ibLive,
             [par.req[p] EXCEPT !.out = Return(IF variant = "index"
                                               THEN [success |-> FALSE]
                                               ELSE FailureReport(GwExcMsg))],
             TRUE)

------------------------------------------------------------------------------
(* connect() and disconnect() called directly *)

\* connect(): api/index.py looks at the shared client, app.py makes a
\* client of its own
ConnectFirst(pend, p) ==
    IF variant = "index"
    THEN CheckLive(pend, p, Begun("connect"))
    ELSE Step(pend, p, connected, ibLive,
              [Begun("connect") EXCEPT !.pc = "c_call"], FALSE)

\* disconnect(): `if self.connected` of api/index.py; app.py clears the
\* flag and returns
DisconnectFirst(pend, p) ==
    IF variant = "app"
    THEN Finish(pend, p, FALSE, ibLive,
                [Begun("disconnect") EXCEPT !.out = Return([none |-> TRUE])],
                TRUE)
    ELSE IF connected
    THEN Step(pend, p, connected, ibLive,
              [Begun("disconnect") EXCEPT !.chk = "up", !.pc = "d_call"], FALSE)
    ELSE Finish(pend, p, connected, ibLive,
                [Begun("disconnect") EXCEPT !.chk = "down",
                                            !.out = Return([none |-> TRUE])],
                FALSE)

\* `self.ib.disconnect()`: an exception leaves disconnect(), which has no
\* try
DisconnectClient(p) ==
    LET slot == par.req[p] IN
    /\ slot.pc = "d_call"
    /\ \E g \in DiscScripts :
          LET s == [slot EXCEPT !.calls = Append(@, CallDisconnect(g.disc))] IN
          IF g.disc = "raise"
          THEN Finish(pending, p, connected, ibLive,
                      [s EXCEPT !.out = Raise(GwExcMsg)], FALSE)
          ELSE Step(pending, p, connected, FALSE, [s EXCEPT !.pc = "d_clear"],
                    FALSE)

\* `self.connected = False` of disconnect() (api/index.py), and the return
Disconnected(p) ==
    /\ par.req[p].pc = "d_clear"
    /\ Finish(pending, p, FALSE, ibLive,
              [par.req[p] EXCEPT !.out = Return([none |-> TRUE])], TRUE)

\* an operation from its beginning to its first statement on the trader
First(pend, p, op) ==
    CASE op \in {"buy", "sell"} -> PlaceFirst(pend, p, op)
      [] op = "test"            -> TestFirst(pend, p)
      [] op = "connect"         -> ConnectFirst(pend, p)
      [] op = "disconnect"      -> DisconnectFirst(pend, p)

\* the next statement of a request that is in a session operation
Proceed(p) ==
    \/ Reset(p)
    \/ Check(p)
    \/ AlreadyLive(p)
    \/ BeginHandshake(p)
    \/ FinishHandshake(p)
    \/ Verify(p)
    \/ SetFlag(p)
    \/ ClearFlag(p)
    \/ ConnectExcept(p)
    \/ CheckClient(p)
    \/ Recheck(p)
    \/ BeginQualify(p)
    \/ Qualify(p)
    \/ Place(p)
    \/ Wake(p)
    \/ Except(p)
    \/ Finally(p)
    \/ SetConnected(p)
    \/ Accounted(p)
    \/ TestExcept(p)
    \/ DisconnectClient(p)
    \/ Disconnected(p)

------------------------------------------------------------------------------
(* One request at a time in the session, observed from its arrival to its  *)
(* answer; the informational routes are answered, and the connection can   *)
(* drop, between any two of its statements.                                *)

Init ==
    /\ variant \in {"index", "app"}
    /\ connected = FALSE
    /\ ibLive = FALSE
    /\ afterExc = FALSE
    /\ pending = NoRequest
    /\ last = NoHistory("none")
    /\ par = Idle
    /\ loop \in {"worker", "fresh"}

\* a client sends POST /buy or POST /sell
Receive ==
    /\ pending = NoRequest
    /\ \E kind \in {"buy", "sell"}, body \in Bodies :
          pending' = Received(kind, body)
    /\ last' = NoHistory("none")
    /\ UNCHANGED <<variant, connected, ibLive, afterExc, par, loop>>

\* the handler of a POST starts: the validation, and place_market_order up
\* to its first statement on the trader
Ordered(kind) ==
    /\ pending.kind = kind
    /\ par.req[1].pc = "idle"
    /\ LET v == order_validate(pending.body, connected, ibLive) IN
       IF v # Valid
       THEN Answered(Started(kind, pending.body), v)
       ELSE First(Started(kind, pending.body), 1, kind)

\* POST /buy
BuyStock == Ordered("buy")

\* POST /sell
SellStock == Ordered("sell")

\* GET /test-connection
TestConnection ==
    /\ pending = NoRequest
    /\ First(Started("test", NoBody), 1, "test")

\* a direct call of trader.connect(), a coroutine, run with asyncio.run as
\* the routes run theirs
Connect ==
    /\ pending = NoRequest
    /\ First(Started("connect", NoBody), 1, "connect")

\* a direct call of trader.disconnect(), a coroutine, run the same way
Disconnect ==
    /\ pending = NoRequest
    /\ First(Started("disconnect", NoBody), 1, "disconnect")

\* What a drop of the connection is to the request in the session, which is
\* at pc: a drop between its connect step and its next look at the
\* connection, a later one, or one at a place where the operations run in
\* one piece have none.
DroppedAt(op, pc) ==
    IF pc = "c_verify" THEN "unscripted"
    ELSE IF op \in {"buy", "sell"}
    THEN IF \/ pc \in {"c_set", "p_recheck", "checked"}
            \/ variant = "app" /\ pc = "p_qualify"
         THEN "afterConnect"
         ELSE "late"
    ELSE IF variant = "app" /\ op = "test" THEN "late"
    ELSE "unscripted"

\* The gateway connection drops silently: the one of the shared client of
\* api/index.py, or the one the request in the session opened (app.py).
Drop ==
    /\ \/ /\ variant = "index"
          /\ ibLive
          /\ ibLive' = FALSE
          /\ par' = par
       \/ /\ variant = "app"
          /\ par.req[1].open
          /\ par' = [par EXCEPT !.req[1].open = FALSE]
          /\ ibLive' = ibLive
    /\ pending' = IF par.req[1].pc = "idle" THEN pending
                  ELSE [pending EXCEPT
                           !.dropped = DroppedAt(par.req[1].op,
                                                 par.req[1].pc)]
    /\ last' = NoHistory("drop")
    /\ UNCHANGED <<variant, connected, afterExc, loop>>

\* a handled GET of an informational URL: no session operation.  The
\* threads of the server answer it while a request is in the session; the
\* main thread handles one request after the other.
Informed(path) ==
    /\ loop = "worker" \/ par.req[1].pc = "idle"
    /\ last' = History(Started(path, NoBody), FALSE, NoTrade,
                       get_route(variant, path, connected, ibLive,
                                 loop = "fresh"))
    /\ UNCHANGED <<variant, connected, ibLive, afterExc, pending, par, loop>>

\* GET /
Home == Informed("/")

\* GET /status
Status == Informed("/status")

\* GET /health, a route of app.py
Health == variant = "app" /\ Informed("/health")

\* a GET of a URL the running file has no route for
NotFound ==
    \E path \in GetPaths \ Routed(variant) : Informed(path)

Next ==
    \/ Receive
    \/ BuyStock
    \/ SellStock
    \/ TestConnection
    \/ Connect
    \/ Disconnect
    \/ Drop
    \/ Home
    \/ Status
    \/ Health
    \/ NotFound
    \/ Proceed(1)

Spec == Init /\ [][Next]_vars

------------------------------------------------------------------------------
(* Two requests in the session at the same time, each in an operation of   *)
(* its own on the module-level trader, interleaved statement by statement. *)

ParOps == {"buy", "test", "connect", "disconnect"}

AllDone == \A p \in Procs : par.req[p].pc = "done"

InitPar ==
    /\ variant \in {"index", "app"}
    /\ connected \in BOOLEAN
    /\ ibLive \in (IF variant = "index" THEN BOOLEAN ELSE {FALSE})
    /\ afterExc = FALSE
    /\ pending = NoRequest
    /\ last = NoHistory("none")
    /\ \E ops \in [Procs -> ParOps] :
          par = [req |-> [p \in Procs |-> Fresh(ops[p])], wrote |-> {},
                 lastw |-> 0]
    /\ loop = "worker"

\* the operation of request p begins: its first statement on the trader
Enter(p) ==
    /\ par.req[p].pc = "start"
    /\ First(pending, p, par.req[p].op)

NextPar ==
    \E p \in Procs :
        \/ Enter(p)
        \/ Proceed(p)

SpecPar == InitPar /\ [][NextPar]_vars

------------------------------------------------------------------------------
(* Properties *)

OrderHandled == last.op \in {"buy", "sell"}
SessionOps == {"connect", "test", "buy", "sell"}

CallNames == {last.calls[i].call : i \in 1..Len(last.calls)}
Placed(i) == last.calls[i].call = "placeOrder"
Qualified(i) == last.calls[i].call = "qualifyContractsAsync"
Handshake(i) == last.calls[i].call = "connectAsync"
FirstHandshake == last.calls # <<>> /\ Handshake(1)
Returned == last.out.kind = "return"
ReturnedError == Returned /\ "error" \in DOMAIN last.out.val

\* the symbol and quantity a well-formed request asks for, written out
\* independently of the handler
RECURSIVE UpperCased(_)
UpperCased(s) ==
    IF s = <<>> THEN <<>>
    ELSE (CASE Head(s) = "a" -> <<"A">>
            [] Head(s) = "ß" -> <<"S", "S">>
            [] OTHER -> <<Head(s)>>) \o UpperCased(Tail(s))
Minus17 == JStr(<<" ", "-", "1", "_", "7", " ">>)
Coercible(x) ==
    x.t \in {"int", "float", "bool"} \/ x \in {JStr(<<"7">>), Minus17}
QuantityOf(x) ==
    CASE x.t = "int" -> x.v
      [] x = JBool(TRUE) -> 1
      [] x = JFloat(27) -> 2
      [] x = JStr(<<"7">>) -> 7
      [] x = Minus17 -> -17
ActionOf(op) == IF op = "buy" THEN <<"B", "U", "Y">>
                ELSE <<"S", "E", "L", "L">>

\* C1 as stated: a POST /buy or /sell whose body lacks symbol or quantity is
\* answered 400 with the message "Missing required fields: symbol and
\* quantity", in both variants, and no gateway call is made while handling
\* it.  The body is whatever JSON value the request carries.
C1_ValidationCompleteness ==
    (OrderHandled /\ (last.body.symbol = Absent \/ last.body.quantity = Absent))
        => /\ last.code = 400
           /\ last.resp = [error |-> "Missing required fields: symbol and quantity"]
           /\ last.calls = <<>>
           /\ ~last.invoked
           /\ connected = last.startConnected
           /\ ibLive = last.startLive

\* C2: a POST /buy (/sell) with a string symbol s and an integer-coercible
\* quantity q, extra fields or not, against a gateway that connects,
\* qualifies and accepts: s upper-cased is what is qualified, exactly one
\* market order BUY (SELL) of q is placed, and the answer is 200 with
\* success, the upper-cased symbol, the action, q, "MARKET" and the status
\* the broker reported.
C2_Order200 ==
    (/\ OrderHandled
     /\ last.body.symbol.t = "str"
     /\ Coercible(last.body.quantity)
     /\ last.healthy)
        => LET sym == UpperCased(last.body.symbol.v)
               q   == QuantityOf(last.body.quantity)
               act == ActionOf(last.op)
           IN  /\ last.code = 200
               /\ last.resp.success = TRUE
               /\ last.resp.symbol = sym
               /\ last.resp.action = act
               /\ last.resp.quantity = q
               /\ last.resp.order_type = "MARKET"
               /\ last.resp.status = last.trade.status
               /\ last.resp.status # ""
               /\ Cardinality({i \in 1..Len(last.calls) : Qualified(i)}) = 1
               /\ \A i \in 1..Len(last.calls) :
                     Qualified(i) => last.calls[i].symbol = sym
               /\ Cardinality({i \in 1..Len(last.calls) : Placed(i)}) = 1
               /\ \A i \in 1..Len(last.calls) :
                     Placed(i) => /\ last.calls[i].action = act
                                  /\ last.calls[i].quantity = q
                                  /\ last.calls[i].symbol = sym
                                  /\ last.calls[i].order_type = "MARKET"
                                  /\ last.calls[i].res = "ok"

C2_Witness ==
    /\ last.op = "buy"
    /\ last.body = [json |-> "object", names |-> FALSE,
                    symbol |-> JStr(<<"a">>), quantity |-> JStr(<<"7">>),
                    extra |-> TRUE]
    /\ last.healthy
    /\ last.resp.symbol = <<"A">>
    /\ last.resp.quantity = 7
    /\ last.code = 200

\* C3 as stated: in both files, when qualification returns no contract,
\* place_market_order makes no placeOrder call and returns the error naming
\* the requested symbol; and every placeOrder call comes after a
\* qualification of the same operation that returned a contract.
C3_QualifyBeforeOrder ==
    OrderHandled =>
        /\ \A i \in 1..Len(last.calls) :
              (Qualified(i) /\ last.calls[i].res = "none") =>
                 /\ "placeOrder" \notin CallNames
                 /\ last.out =
                       Return([error |-> "Could not qualify contract for symbol "
                                          \o Text(UpperCased(last.body.symbol.v))])
        /\ \A j \in 1..Len(last.calls) :
              Placed(j) => \E i \in 1..(j - 1) :
                              Qualified(i) /\ last.calls[i].res = "one"

\* C4: a place_market_order that returns an error result submitted no
\* order: none of its gateway calls is a placeOrder that went through.
C4_ErrorMeansNoOrder ==
    (OrderHandled /\ last.invoked /\ ReturnedError)
        => \A i \in 1..Len(last.calls) :
              ~(Placed(i) /\ last.calls[i].res = "ok")

C4_Witness ==
    /\ OrderHandled /\ last.invoked /\ ReturnedError
    /\ \E i \in 1..Len(last.calls) : Placed(i) /\ last.calls[i].res = "raise"

\* C5: in app.py, when test_connection or place_market_order returns, on
\* whatever path, no connection it opened is still open.
C5_Cleanup ==
    (/\ variant = "app"
     /\ last.op \in {"test", "buy", "sell"}
     /\ last.invoked
     /\ Returned)
        => ~last.openAfter

C5_Witness ==
    /\ variant = "app"
    /\ last.op = "buy"
    /\ ReturnedError
    /\ Len(last.calls) = 3
    /\ last.calls[1] = CallConnect(FALSE, "ok")
    /\ last.calls[2].res = "raise"
    /\ last.calls[3] = CallDisconnect("ok")
    /\ ~last.openAfter

\* C6 as stated: on /buy, /sell and /test-connection, in both variants, a
\* session result with an error key is answered 500 and one without 200.
C6_UniformRule ==
    (last.op \in {"buy", "sell", "test"} /\ last.invoked /\ Returned)
        => /\ ("error" \in DOMAIN last.out.val) => last.code = 500
           /\ ("error" \notin DOMAIN last.out.val) => last.code = 200

\* C6 amended: the rule holds on /buy and /sell; /test-connection answers
\* every result its session operation returns with 200, error key or not;
\* all three answer 500 with an error body when the operation raises.
C6_RuleOnOrders ==
    /\ (OrderHandled /\ last.invoked /\ Returned)
          => /\ last.code = IF "error" \in DOMAIN last.out.val THEN 500 ELSE 200
             /\ last.resp = last.out.val
    /\ (last.op = "test" /\ Returned)
          => /\ last.code = 200
             /\ last.resp = last.out.val
    /\ (last.op \in {"buy", "sell", "test"} /\ last.invoked /\ ~Returned)
          => /\ last.code = 500
             /\ DOMAIN last.resp = {"error"}

C6_Witness ==
    /\ variant = "app"
    /\ last.op = "test"
    /\ ReturnedError
    /\ last.code = 200
    /\ "error" \in DOMAIN last.resp

\* C7: in both variants a failed test_connection reports success = false
\* together with host, port and client_id, and no account data.
C7_FailureReport ==
    (last.op = "test" /\ Returned /\ last.out.val.success = FALSE)
        => /\ {"host", "port", "client_id"} \subseteq DOMAIN last.out.val
           /\ "accounts" \notin DOMAIN last.out.val

------------------------------------------------------------------------------
(* The operations of two requests on the one trader.  A request that is    *)
(* done has its gateway calls, what it returned, and what it saw and did   *)
(* on the trader.                                                          *)

Done(p) == par.req[p].pc = "done"
Calls(p) == {par.req[p].calls[i].call : i \in 1..Len(par.req[p].calls)}
BeganWithHandshake(p) ==
    /\ par.req[p].calls # <<>>
    /\ par.req[p].calls[1].call = "connectAsync"
CaughtGwExc(p) == GwExc(par.req[p].calls)

\* C8 as stated: connect() on a session that is already connected returns
\* success without a handshake, so two connect() calls in a row both
\* succeed and the second issues no handshake.
AlreadyConnected(p) == par.req[p].startLive \/ par.req[p].prevConnectOk

C8_ConnectIdempotent ==
    \A p \in Procs :
        (Done(p) /\ par.req[p].op = "connect" /\ AlreadyConnected(p))
            => /\ par.req[p].out = Return([ok |-> TRUE])
               /\ par.req[p].calls = <<>>

\* C8 amended: idempotence is a property of connect() of api/index.py and
\* of its own look at the client: a connect(), called directly or by
\* place_market_order, whose `self.ib.isConnected()` found the client
\* connected sets the flag and returns success without a handshake,
\* whatever another request does meanwhile; one that found it disconnected
\* goes on to connectAsync.  connect() of app.py opens a new client with a
\* handshake on every call.
C8_IndexConnectIdempotent ==
    \A p \in Procs :
        (Done(p) /\ par.req[p].op \in {"connect", "buy"})
            => /\ (variant = "index" /\ par.req[p].chk = "up")
                     => /\ par.req[p].ret = "ok"
                        /\ "connectAsync" \notin Calls(p)
                        /\ par.req[p].op = "connect"
                              => /\ par.req[p].out = Return([ok |-> TRUE])
                                 /\ par.req[p].calls = <<>>
                                 /\ par.req[p].wrote = "true"
               /\ (variant = "index" /\ par.req[p].chk = "down")
                     => BeganWithHandshake(p)
               /\ (variant = "app")
                     => /\ BeganWithHandshake(p)
                        /\ par.req[p].op = "connect"
                              => Len(par.req[p].calls) = 1

\* two connect() in a row on the shared client: the first made the
\* handshake, the second found the client connected and made none
C8_Witness ==
    /\ variant = "index"
    /\ AllDone
    /\ par.req[1].op = "connect"
    /\ par.req[1].calls = <<CallConnect(FALSE, "ok")>>
    /\ par.req[1].out = Return([ok |-> TRUE])
    /\ par.req[2].op = "connect"
    /\ par.req[2].prevConnectOk
    /\ par.req[2].chk = "up"
    /\ par.req[2].calls = <<>>
    /\ par.req[2].out = Return([ok |-> TRUE])

\* C9 as stated: after an operation fails with a gateway exception the flag
\* is false when it returns, and the next operation starts with a gateway
\* connect.
SessionOp(p) == par.req[p].op \in SessionOps
NextAfterExc(p) == Done(p) /\ SessionOp(p) /\ par.req[p].prevExc

C9_ResetThenReconnect ==
    \A p \in Procs :
        /\ (Done(p) /\ SessionOp(p) /\ CaughtGwExc(p)) => ~par.req[p].flagAfter
        /\ NextAfterExc(p) => BeganWithHandshake(p)

\* C9 amended: an operation that catches a gateway exception assigns false
\* to the flag, and that is its last assignment: the flag is false when it
\* returns unless another request has assigned it since.  The next
\* operation starts with a gateway connect in app.py; in api/index.py
\* test_connection does when it reads the flag false, and connect and
\* place_market_order go by ib.isConnected(): they make a handshake when
\* their look at the client found it disconnected, and none otherwise.
C9_FlagReset ==
    \A p \in Procs :
        /\ (Done(p) /\ SessionOp(p) /\ CaughtGwExc(p))
              => /\ par.req[p].wrote = "false"
                 /\ par.req[p].mine => ~par.req[p].flagAfter
        /\ (NextAfterExc(p) /\ variant = "app") => BeganWithHandshake(p)
        /\ (NextAfterExc(p) /\ variant = "index" /\ par.req[p].op = "test")
              => (BeganWithHandshake(p) <=> par.req[p].chk = "down")
        /\ (NextAfterExc(p) /\ variant = "index" /\ par.req[p].op # "test")
              => (("connectAsync" \in Calls(p)) <=> par.req[p].chk = "down")

\* test_connection caught an exception of managedAccounts on a connected
\* client and left the flag false; the test_connection after it read the
\* flag and began with a handshake on the connected client
C9_Witness ==
    /\ variant = "index"
    /\ AllDone
    /\ par.req[1].op = "test"
    /\ CaughtGwExc(1)
    /\ par.req[1].wrote = "false"
    /\ par.req[1].mine
    /\ ~par.req[1].flagAfter
    /\ par.req[2].op = "test"
    /\ par.req[2].prevExc
    /\ par.req[2].startLive
    /\ par.req[2].chk = "down"
    /\ par.req[2].calls[1].call = "connectAsync"
    /\ par.req[2].calls[1].live

\* the handshakes of request p that did not bring the connection up
FailedHandshakesOf(p) ==
    {i \in 1..Len(par.req[p].calls) :
        /\ par.req[p].calls[i].call = "connectAsync"
        /\ par.req[p].calls[i].res # "ok"}
Stopped(p) ==
    /\ par.req[p].out = Return([error |-> "Failed to connect to IBKR"])
    /\ "qualifyContractsAsync" \notin Calls(p)
    /\ "placeOrder" \notin Calls(p)

\* C10 as stated: when place_market_order finds no live connection and its
\* connect attempt fails, the handshake raising or leaving no connection,
\* it returns "Failed to connect to IBKR" and calls neither the
\* qualification nor placeOrder.
C10_FailedHandshakeStops ==
    \A p \in Procs :
        (/\ Done(p)
         /\ par.req[p].op = "buy"
         /\ variant = "app" \/ ~par.req[p].startLive
         /\ FailedHandshakesOf(p) # {})
            => Stopped(p)

\* C10 amended: failure is what connect() returns.  When connect() returns
\* failure, place_market_order returns exactly "Failed to connect to IBKR"
\* and calls neither the qualification nor placeOrder, and nothing but the
\* one handshake has been asked of the gateway.  connect() returns failure
\* when the handshake raised or when its look at the client after the
\* handshake found it disconnected; it returns success only when a look at
\* the client found it connected, which in api/index.py is the shared
\* client, whoever connected it.
C10_ConnectFailureStops ==
    \A p \in Procs :
        (Done(p) /\ par.req[p].op = "buy")
            => /\ par.req[p].ret = "failed"
                     => /\ Stopped(p)
                        /\ Len(par.req[p].calls) = 1
                        /\ BeganWithHandshake(p)
                        /\ par.req[p].wrote = "false"
               /\ (BeganWithHandshake(p) /\ par.req[p].calls[1].res = "raise")
                     => par.req[p].ret = "failed"
               /\ par.req[p].ver = "down" => par.req[p].ret = "failed"
               /\ par.req[p].ret = "ok"
                     => (par.req[p].ver = "up" \/ par.req[p].chk = "up")
               /\ (variant = "app" \/ par.req[p].chk = "down")
                     => BeganWithHandshake(p)

\* the handshake of the order raised while the other request was placing
\* its order on the connected client: the order stops
C10_Witness ==
    /\ variant = "index"
    /\ AllDone
    /\ par.req[1].op = "buy"
    /\ par.req[1].calls = <<CallConnect(FALSE, "raise")>>
    /\ par.req[1].ret = "failed"
    /\ par.req[1].out = Return([error |-> "Failed to connect to IBKR"])
    /\ par.req[2].op = "buy"
    /\ par.req[2].out =
          Return(OrderResult(ParSymbol, BUY, ParQuantity, ParTrade))

------------------------------------------------------------------------------
(* The stepwise handlers against the operations run without interruption *)

\* what the request last answered would have got from its handler run in
\* one piece under the gateway script g
Uninterrupted(g) ==
    CASE last.op = "buy" ->
            buy_stock(variant, last.body, last.startConnected, last.startLive,
                      g)
      [] last.op = "sell" ->
            sell_stock(variant, last.body, last.startConnected, last.startLive,
                       g)
      [] last.op = "test" ->
            test_connection_route(variant, last.startConnected, last.startLive,
                                  g)
      [] last.op = "connect" ->
            LET c == IF variant = "index"
                     THEN index_connect(last.startConnected, last.startLive, g)
                     ELSE app_connect(last.startConnected, g)
            IN  Response(0, NoValue, TRUE,
                         IF variant = "index"
                         THEN Outcome(Return([ok |-> c.ret]), c.connected,
                                      c.live, c.calls, c.gwExc, FALSE)
                         ELSE Outcome(Return([ok |-> c.ib]), c.connected,
                                      FALSE, c.calls, c.gwExc, c.ib))
      [] last.op = "disconnect" ->
            Response(0, NoValue, TRUE,
                     IF variant = "index"
                     THEN index_disconnect(last.startConnected, last.startLive,
                                           g)
                     ELSE app_disconnect(last.startConnected, g))

\* Every answer of /buy, /sell and /test-connection, every result of
\* connect() and disconnect(), and the session state left behind, is the one
\* of an uninterrupted run under some gateway script, when the connection
\* dropped, if it did, at a place the scripts have a drop for: the
\* informational requests answered in between change nothing.
StepwiseAgreesWithUninterrupted ==
    (last.op \in {"buy", "sell", "test", "connect", "disconnect"}
        /\ ~last.unscripted)
        => \E g \in GwScripts :
              LET r == Uninterrupted(g) IN
              /\ last.code = r.code
              /\ last.resp = r.body
              /\ last.invoked = r.invoked
              /\ last.out = r.ses.out
              /\ last.calls = r.ses.calls
              /\ last.gwExc = r.ses.gwExc
              /\ last.openAfter = r.ses.openAfter
              /\ connected = r.ses.connected
              /\ ibLive = r.ses.live

------------------------------------------------------------------------------
(* Properties of the second group *)

\* C11 as stated: whatever the gateway raises, at any step of connect,
\* test_connection or place_market_order and in the teardown of app.py, the
\* operation returns a result value and raises nothing to the route handler.
C11_FailuresAreValues ==
    (last.op \in SessionOps /\ last.invoked) => Returned

\* C12 as stated: GET /status, / and /account answer 200 in every session
\* state, without a gateway call.
C12_InfoEndpoints200 ==
    (last.op \in {"/status", "/", "/account"})
        => /\ last.code = 200
           /\ last.calls = <<>>

\* the operation began with the flag set on a dead connection
StaleTrue == last.startConnected /\ ~last.startLive
ReportedFailure ==
    /\ Returned
    /\ \/ "error" \in DOMAIN last.out.val
       \/ "success" \in DOMAIN last.out.val /\ ~last.out.val.success
TestSucceeded ==
    /\ last.op = "test"
    /\ Returned
    /\ last.out.val.success

\* C13 as stated: in api/index.py an operation that starts with the flag
\* true on a dropped connection notices it, and either starts a gateway
\* connect or reports failure; test_connection never reports success while
\* the connection is not live.
C13_FlagReverified ==
    (variant = "index" /\ last.invoked)
        => /\ (last.op \in {"test", "buy", "sell"} /\ StaleTrue)
                => (FirstHandshake \/ ReportedFailure)
           /\ TestSucceeded => ibLive

\* C14 as stated: in both files place_market_order looks at the connection
\* again after its connect step; when the connection was dropped in between,
\* it returns exactly "No active connection to IBKR" and calls neither
\* qualifyContractsAsync nor placeOrder.
C14_RecheckAfterConnect ==
    (OrderHandled /\ last.recheckDead)
        => /\ last.out = Return(NoActiveConnection)
           /\ "qualifyContractsAsync" \notin CallNames
           /\ "placeOrder" \notin CallNames

\* the gateway connects the operation started, and the ones that did not
\* bring the connection up
Handshakes == {i \in 1..Len(last.calls) : Handshake(i)}
FailedHandshakes == {i \in Handshakes : last.calls[i].res # "ok"}
ConnectFailed == last.op = "connect" /\ last.out = Return([ok |-> FALSE])

\* C15 as stated: connect, test_connection and place_market_order of both
\* files start at most one gateway connect per call, and a connect that
\* failed is reported in the result of the same call.
C15_NoRetry ==
    (last.op \in SessionOps /\ last.invoked)
        => /\ Cardinality(Handshakes) <= 1
           /\ FailedHandshakes # {} => (ReportedFailure \/ ConnectFailed)

\* C16 as stated: in app.py two requests handled at the same time share no
\* mutable state: no variable one of them writes, trader.connected included,
\* is written by the other.
C16_NothingShared ==
    variant = "app" => Cardinality(par.wrote) <= 1

\* the gateway scripts of a request that runs alone, nothing dropping its
\* connection
AloneScripts == {g \in GwScripts : g.drop = "none" /\ g.trade = ParTrade}

\* what the operation op of app.py does for one request alone, run without
\* interruption under the gateway script g
Alone(op, g) ==
    CASE op = "buy" ->
            app_place_market_order(FALSE, ParSymbol, BUY, ParQuantity, g)
      [] op = "test" -> app_test_connection(FALSE, g)
      [] op = "connect" ->
            LET c == app_connect(FALSE, g) IN
            Outcome(Return([ok |-> c.ib]), c.connected, FALSE, c.calls,
                    c.gwExc, c.ib)
      [] op = "disconnect" -> app_disconnect(FALSE, g)

\* C16 amended: in app.py each request owns its gateway client from connect
\* to disconnect, so whatever the other request does in between, a finished
\* request has the result, the gateway calls and the client state of a run
\* of its own; the one thing shared is trader.connected of the module-level
\* trader, which every request assigns and none reads.
C16_OwnSession ==
    \A p \in Procs :
        (variant = "app" /\ par.req[p].pc = "done")
            => \E g \in AloneScripts :
                  /\ par.req[p].out = Alone(par.req[p].op, g).out
                  /\ par.req[p].calls = Alone(par.req[p].op, g).calls
                  /\ par.req[p].open = Alone(par.req[p].op, g).openAfter

\* both requests are done and both assigned the flag: the first placed its
\* order, the second failed to connect and was the last to assign the flag
C16_Witness ==
    /\ variant = "app"
    /\ AllDone
    /\ par.wrote = Procs
    /\ par.req[1].out =
          Return(OrderResult(ParSymbol, BUY, ParQuantity, ParTrade))
    /\ par.req[2].op = "buy"
    /\ par.req[2].out = Return(FailedToConnect)
    /\ ~connected

\* C17: the shared session of api/index.py has no mutual exclusion: what a
\* request does after its look at the shared client depends on nothing but
\* what it saw.  A request whose connect() found the client disconnected,
\* or whose test_connection read the flag false, is about to call
\* connectAsync or has called it, whatever the other request is doing, also
\* while the other is inside its own connectAsync on the same client.
C17_NoMutualExclusion ==
    \A p \in Procs :
        (/\ variant = "index"
         /\ par.req[p].op \in {"buy", "test", "connect"}
         /\ par.req[p].chk = "down")
            => \/ par.req[p].pc \in {"c_call", "t_call"}
               \/ BeganWithHandshake(p)

\* both requests are inside connectAsync on the one client, each having
\* found it disconnected, the second having called while the first was in
C17_Witness ==
    /\ variant = "index"
    /\ Inflight = Procs
    /\ ~ibLive
    /\ \E p \in Procs : par.req[p].raced
    /\ \A p \in Procs : /\ par.req[p].op = "buy"
                        /\ par.req[p].chk = "down"
                        /\ par.req[p].calls = <<CallConnect(FALSE, Waiting)>>

OrderSucceeded ==
    /\ OrderHandled
    /\ Returned
    /\ "success" \in DOMAIN last.out.val

\* C18 as stated: in api/index.py, whenever place_market_order returns a
\* successful order result the flag is true at return, which is what a
\* GET /status made right after it reports as connected_to_ibkr.
C18_SuccessSetsFlag ==
    /\ (variant = "index" /\ OrderSucceeded) => connected
    /\ (variant = "index" /\ last.op = "/status")
            => last.resp.connected_to_ibkr = connected

\* C19 as stated: in api/index.py, in every state, the stale one with the
\* flag false on a live connection included, when disconnect() has returned
\* the gateway connection is closed and the flag is false.
C19_DisconnectFailSafe ==
    (variant = "index" /\ last.op = "disconnect" /\ Returned)
        => /\ ~ibLive
           /\ ~connected

\* C20 as stated: no operation of api/index.py starts a gateway connect on
\* the shared client while its connection is live.
C20_NoHandshakeWhileLive ==
    (variant = "index" /\ last.invoked)
        => \A i \in Handshakes : ~last.calls[i].live

====
